---- MODULE Spec2Model ----
(***************************************************************************)
(* State-machine model of streamlit0102.py, the Streamlit page "GEE Image  *)
(* & Coordinate Extractor".  One behaviour is a browser session: every     *)
(* user interaction re-executes the script top to bottom (a "run"); the    *)
(* steps of a run are the actions below, in script order.  The Earth       *)
(* Engine service, the secret store and the folium map widget are          *)
(* external: their answers are nondeterministic inputs of the actions.     *)
(***************************************************************************)
EXTENDS Integers, Sequences, FiniteSets, TLC

VARIABLES
    pc,            \* position of the script run
    prevLayers,    \* history: imagery layers of the map the previous run rendered
    auth,          \* how initialize_ee() went in this run, "pending" before
    satellite,     \* st.selectbox("Satellite")                      line 33
    viz_mode,      \* st.radio("Visualization")                      line 43
    run_basemap,   \* st.button(...): True only in the run of the press, line 45
    drawn,         \* the widget's last active drawing, kept by the browser
    m,             \* the folium.Map built by this run               line 51
    col_id,        \* collection identifier chosen by this run       lines 58/62
    viz_bands,     \* band triple chosen by this run                 lines 60/64
    filterRegion,  \* geometry handed to filterBounds                line 68
    clipped,       \* whether the composite was clipped to a region
    imgCount,      \* answer of img_col.size().getInfo(), -1 before  line 72
    eeCalls,       \* remote imagery requests issued by this run, in order
    rendered,      \* the map handed to st_folium by this run        line 98
    map_output,    \* what st_folium returned                        line 98
    df,            \* the DataFrame shown by st.dataframe            line 112
    snippet,       \* the geometry snippet shown by st.code          line 118
    out,           \* page elements written by this run, in order
    error          \* the exception that ended the run, "none" otherwise

vars == <<pc, prevLayers, auth, satellite, viz_mode, run_basemap, drawn, m, col_id, viz_bands,
          filterRegion, clipped, imgCount, eeCalls, rendered, map_output,
          df, snippet, out, error>>

----------------------------------------------------------------------------
(* Bounds of the model *)

MaxLon == 1          \* sample longitudes are 0..MaxLon
MinRingLen == 3      \* rings have MinRingLen..MaxRingLen vertices
MaxRingLen == 3
MaxImages == 1       \* the size query answers 0..MaxImages

----------------------------------------------------------------------------
(* Inputs *)

Satellites == {"Sentinel-2", "Landsat-8"}
VizModes == {"Natural Color", "False Color (Infrared)"}

\* (longitude, latitude) pairs; latitudes lie above every longitude so that a
\* swapped column is visible.
Points == {<<x, x + MaxLon + 1>> : x \in 0..MaxLon}

Rings == UNION {[1..n -> Points] : n \in MinRingLen..MaxRingLen}

\* Interior rings and further polygons: degenerate rings on a single point.
Holes == {[i \in 1..MinRingLen |-> p] : p \in Points}

PolygonCoords == {<<r>> : r \in Rings} \cup {<<r, h>> : r \in Rings, h \in Holes}

MultiPolygonCoords ==
    {<<p>> : p \in PolygonCoords}
        \cup {<<p, <<h>>>> : p \in PolygonCoords, h \in Holes}

NoDrawing == [type |-> "None", coordinates |-> <<>>]

Polygons == {[type |-> "Polygon", coordinates |-> c] : c \in PolygonCoords}
MultiPolygons == {[type |-> "MultiPolygon", coordinates |-> c] : c \in MultiPolygonCoords}
LineStrings == {[type |-> "LineString", coordinates |-> c] : c \in Rings}

----------------------------------------------------------------------------
(* Helpers *)

Append2(s, a, b) == Append(Append(s, a), b)

Shown(kind) == \E i \in 1..Len(out) : out[i] = kind

Called(req) == \E i \in 1..Len(eeCalls) : eeCalls[i] = req

SeqMax(s) ==
    IF s = <<>> THEN 0
    ELSE CHOOSE n \in {Len(s[i]) : i \in 1..Len(s)} :
             \A k \in {Len(s[i]) : i \in 1..Len(s)} : k <= n

NoMap == [created |-> FALSE, layers |-> <<>>, draw |-> FALSE, control |-> FALSE]

NoSnippet == [ctor |-> "", arg |-> <<>>]

NoOutput == [present |-> FALSE, last_active_drawing |-> NoDrawing]

----------------------------------------------------------------------------
(* The script's own computations *)

AuthOutcomes == {"ok", "no_secret", "creds_raise", "init_raise"}

\* initialize_ee() with an except branch that reports the error and goes on.
initialize_ee_proceeds(outcome) ==
    IF outcome = "no_secret"
    THEN [ret |-> FALSE, msg |-> "error:Secrets not found"]
    ELSE IF outcome \in {"creds_raise", "init_raise"}
    THEN [ret |-> TRUE, msg |-> "error:Init Error"]
    ELSE [ret |-> TRUE, msg |-> ""]

\* initialize_ee(), lines 15-28: the value returned and the st.error written.
initialize_ee(outcome) ==
    IF outcome = "no_secret"
    THEN [ret |-> FALSE, msg |-> "error:Secrets not found"]
    ELSE IF outcome \in {"creds_raise", "init_raise"}
    THEN [ret |-> FALSE, msg |-> "error:Init Error"]
    ELSE [ret |-> TRUE, msg |-> ""]

\* The load request read from a flag that outlives the run of the press.
LoadRequestedSticky == run_basemap \/ prevLayers > 0

\* `if run_basemap:`, line 53.
LoadRequested == run_basemap

\* lines 57-58, 61-62
ColId(sat) ==
    IF sat = "Sentinel-2" THEN "COPERNICUS/S2_SR_HARMONIZED"
    ELSE "LANDSAT/LC08/C02/T1_L2"

\* The band table with the Sentinel-2 infrared band used for both satellites.
VizBandsMixed(sat, mode) ==
    IF mode = "Natural Color" THEN <<"B4", "B3", "B2">> ELSE <<"B8", "B4", "B3">>

\* lines 60 and 64
VizBands(sat, mode) ==
    IF sat = "Sentinel-2"
    THEN (IF mode = "Natural Color" THEN <<"B4", "B3", "B2">> ELSE <<"B8", "B4", "B3">>)
    ELSE (IF mode = "Natural Color" THEN <<"B4", "B3", "B2">> ELSE <<"B5", "B4", "B3">>)

\* line 68: the collection is always filtered by default_roi (line 55).
FilterRegion == "default_roi"

\* line 73: img = img_col.median(); the composite is not clipped.
ClipApplied == FALSE

\* folium.Map(...), line 51: a fresh map without overlays.
NewMap == [created |-> TRUE, layers |-> <<>>, draw |-> FALSE, control |-> FALSE]

\* The test of line 102 without its second conjunct.
HasDrawingLoose(mo) == mo.present

\* `map_output and map_output.get("last_active_drawing")`, line 102
HasDrawing(mo) == mo.present /\ mo.last_active_drawing.type # "None"

\* pandas pads a short row with None.
Cell(row, j) == IF j <= Len(row) THEN row[j] ELSE "None"

\* The frame with the column labels exchanged.
DataFrameSwapped(data) ==
    IF data = <<>> THEN [raised |-> FALSE, rows |-> <<>>]
    ELSE IF SeqMax(data) # 2 THEN [raised |-> TRUE, rows |-> <<>>]
    ELSE [raised |-> FALSE,
          rows |-> [i \in 1..Len(data) |->
                      [Longitude |-> Cell(data[i], 2), Latitude |-> Cell(data[i], 1)]]]

\* pd.DataFrame(data, columns=["Longitude", "Latitude"]), line 112: one row
\* per element of data, the element's items spread over the columns; pandas
\* raises ValueError when the widest element does not have two items.
DataFrame(data) ==
    IF data = <<>> THEN [raised |-> FALSE, rows |-> <<>>]
    ELSE IF SeqMax(data) # 2 THEN [raised |-> TRUE, rows |-> <<>>]
    ELSE [raised |-> FALSE,
          rows |-> [i \in 1..Len(data) |->
                      [Longitude |-> Cell(data[i], 1), Latitude |-> Cell(data[i], 2)]]]

\* f"roi = ee.Geometry.{geom_type}({coords})", line 118
Snippet(geom_type, coords) == [ctor |-> geom_type, arg |-> coords]

----------------------------------------------------------------------------
(* A run of the script *)

Idle == pc \in {"done", "crashed"}

\* Streamlit re-executes the script in a fresh namespace and replaces the
\* page's elements; lines 11-12 and 31-46 read the widgets.
StartRun(sat, mode, pressed) ==
    /\ satellite' = sat
    /\ viz_mode' = mode
    /\ run_basemap' = pressed
    /\ m' = NoMap
    /\ col_id' = ""
    /\ viz_bands' = <<>>
    /\ filterRegion' = ""
    /\ clipped' = FALSE
    /\ imgCount' = -1
    /\ eeCalls' = <<>>
    /\ rendered' = NoMap
    /\ map_output' = NoOutput
    /\ df' = <<>>
    /\ snippet' = NoSnippet
    /\ out' = <<>>
    /\ error' = "none"
    /\ auth' = "pending"
    /\ prevLayers' = Len(rendered.layers)
    /\ pc' = "init"

ChangeSatellite(sat) ==
    /\ Idle
    /\ sat # satellite
    /\ StartRun(sat, viz_mode, FALSE)
    /\ UNCHANGED drawn

ChangeVizMode(mode) ==
    /\ Idle
    /\ mode # viz_mode
    /\ StartRun(satellite, mode, FALSE)
    /\ UNCHANGED drawn

PressLoad ==
    /\ Idle
    /\ StartRun(satellite, viz_mode, TRUE)
    /\ UNCHANGED drawn

\* The user draws a shape with the Draw control of the rendered map; the
\* widget reports it and the script runs again.
UserDraw(g) ==
    /\ Idle
    /\ rendered.created
    /\ rendered.draw
    /\ drawn' = g
    /\ StartRun(satellite, viz_mode, FALSE)

\* `if initialize_ee():`, lines 15-28 and 49
InitializeEE(outcome) ==
    /\ pc = "init"
    /\ LET r == initialize_ee(outcome) IN
        /\ auth' = outcome
        /\ out' = IF r.msg = "" THEN out ELSE Append(out, r.msg)
        /\ pc' = IF r.ret THEN "main" ELSE "done"
    /\ UNCHANGED <<prevLayers, satellite, viz_mode, run_basemap, drawn, m, col_id,
                   viz_bands, filterRegion, clipped, imgCount, eeCalls, rendered,
                   map_output, df, snippet, error>>

\* lines 50-53
CreateMap ==
    /\ pc = "main"
    /\ m' = NewMap
    /\ pc' = IF LoadRequested THEN "select" ELSE "draw"
    /\ UNCHANGED <<prevLayers, auth, satellite, viz_mode, run_basemap, drawn, col_id, viz_bands,
                   filterRegion, clipped, imgCount, eeCalls, rendered, map_output,
                   df, snippet, out, error>>

\* lines 55-70: building the collection expression issues no request.
SelectCollection ==
    /\ pc = "select"
    /\ col_id' = ColId(satellite)
    /\ viz_bands' = VizBands(satellite, viz_mode)
    /\ filterRegion' = FilterRegion
    /\ pc' = "size"
    /\ UNCHANGED <<prevLayers, auth, satellite, viz_mode, run_basemap, drawn, m, clipped, imgCount,
                   eeCalls, rendered, map_output, df, snippet, out, error>>

\* line 72, with the else branch of lines 90-91; no handler encloses it.
QuerySize(raises, n) ==
    /\ pc = "size"
    /\ eeCalls' = Append(eeCalls, "size")
    /\ IF raises
       THEN /\ error' = "EEException"
            /\ pc' = "crashed"
            /\ UNCHANGED <<imgCount, out>>
       ELSE /\ imgCount' = n
            /\ error' = error
            /\ out' = IF n > 0 THEN out ELSE Append(out, "warning:No images found")
            /\ pc' = IF n > 0 THEN "composite" ELSE "draw"
    /\ UNCHANGED <<prevLayers, auth, satellite, viz_mode, run_basemap, drawn, m, col_id, viz_bands,
                   filterRegion, clipped, rendered, map_output, df, snippet>>

\* lines 73-89: median composite, tile-URL request, tile layer added to m.
AddImagery(raises) ==
    /\ pc = "composite"
    /\ eeCalls' = Append2(eeCalls, "median", "getMapId")
    /\ clipped' = ClipApplied
    /\ IF raises
       THEN /\ error' = "EEException"
            /\ pc' = "crashed"
            /\ m' = m
       ELSE /\ m' = [m EXCEPT !.layers = Append(@, <<satellite, viz_mode>>)]
            /\ error' = error
            /\ pc' = "draw"
    /\ UNCHANGED <<prevLayers, auth, satellite, viz_mode, run_basemap, drawn, col_id, viz_bands,
                   filterRegion, imgCount, rendered, map_output, df, snippet, out>>

\* lines 94-101: drawing tools, layer control, st_folium, st.divider.  The
\* widget answers nothing (present = FALSE), or a record whose
\* last_active_drawing is the drawing it holds or empty.
RenderMap(present, reports) ==
    /\ pc = "draw"
    /\ m' = [m EXCEPT !.draw = TRUE, !.control = TRUE]
    /\ rendered' = m'
    /\ map_output' = [present |-> present,
                      last_active_drawing |->
                          IF present /\ reports THEN drawn ELSE NoDrawing]
    /\ out' = Append(out, "divider")
    /\ pc' = "coords"
    /\ UNCHANGED <<prevLayers, auth, satellite, viz_mode, run_basemap, drawn, col_id, viz_bands,
                   filterRegion, clipped, imgCount, eeCalls, df, snippet, error>>

\* lines 102-128
CoordinateProcessing ==
    /\ pc = "coords"
    /\ IF HasDrawing(map_output)
       THEN LET drawing_data == map_output.last_active_drawing
                geom_type == drawing_data.type
                coords == drawing_data.coordinates
                tabular == geom_type \in {"Polygon", "MultiPolygon"}
                frame == DataFrame(coords[1])
            IN  IF geom_type = "None"
                THEN \* None["geometry"], line 104
                     /\ error' = "TypeError"
                     /\ pc' = "crashed"
                     /\ UNCHANGED <<df, snippet, out>>
                ELSE IF tabular /\ frame.raised
                THEN /\ error' = "ValueError"
                     /\ pc' = "crashed"
                     /\ out' = Append(out, "subheader")
                     /\ UNCHANGED <<df, snippet>>
                ELSE /\ df' = IF tabular THEN frame.rows ELSE df
                     /\ snippet' = Snippet(geom_type, coords)
                     /\ out' = (IF tabular
                                THEN Append2(Append(out, "subheader"), "write", "dataframe")
                                ELSE Append(out, "subheader"))
                               \o <<"write", "code", "write", "json">>
                     /\ error' = error
                     /\ pc' = "done"
       ELSE /\ out' = Append(out, "info:idle prompt")
            /\ pc' = "done"
            /\ UNCHANGED <<df, snippet, error>>
    /\ UNCHANGED <<prevLayers, auth, satellite, viz_mode, run_basemap, drawn, m, col_id, viz_bands,
                   filterRegion, clipped, imgCount, eeCalls, rendered, map_output>>

\* The first page load: widget defaults, nothing drawn.
Init ==
    /\ pc = "init"
    /\ prevLayers = 0
    /\ auth = "pending"
    /\ satellite = "Sentinel-2"
    /\ viz_mode = "Natural Color"
    /\ run_basemap = FALSE
    /\ drawn = NoDrawing
    /\ m = NoMap
    /\ col_id = ""
    /\ viz_bands = <<>>
    /\ filterRegion = ""
    /\ clipped = FALSE
    /\ imgCount = -1
    /\ eeCalls = <<>>
    /\ rendered = NoMap
    /\ map_output = NoOutput
    /\ df = <<>>
    /\ snippet = NoSnippet
    /\ out = <<>>
    /\ error = "none"

Next ==
    \/ \E sat \in Satellites : ChangeSatellite(sat)
    \/ \E mode \in VizModes : ChangeVizMode(mode)
    \/ PressLoad
    \/ \E g \in Polygons : UserDraw(g)
    \/ \E g \in MultiPolygons : UserDraw(g)
    \/ \E g \in LineStrings : UserDraw(g)
    \/ \E outcome \in AuthOutcomes : InitializeEE(outcome)
    \/ CreateMap
    \/ SelectCollection
    \/ \E raises \in BOOLEAN, n \in 0..MaxImages : QuerySize(raises, n)
    \/ \E raises \in BOOLEAN : AddImagery(raises)
    \/ \E present \in BOOLEAN, reports \in BOOLEAN : RenderMap(present, reports)
    \/ CoordinateProcessing

Spec == Init /\ [][Next]_vars

----------------------------------------------------------------------------
(* Properties *)

\* The run is over and the map widget answered in it, so coordinate
\* processing (lines 102-128) has acted on map_output.
Processed == Idle /\ rendered.created

Reported == map_output.last_active_drawing

AuthFailed == auth \in {"no_secret", "creds_raise", "init_raise"}

\* C1: for a drawn Polygon whose outer ring has N >= 3 vertices the table that
\* is shown has exactly N rows, and row i is the (Longitude, Latitude) pair of
\* the i-th vertex of the outer ring.
C1_PolygonTable ==
    (Processed /\ HasDrawing(map_output) /\ Reported.type = "Polygon"
        /\ Len(Reported.coordinates[1]) >= 3)
    => LET ring == Reported.coordinates[1] IN
        /\ error = "none"
        /\ Shown("dataframe")
        /\ Len(df) = Len(ring)
        /\ \A i \in 1..Len(ring) :
              df[i].Longitude = ring[i][1] /\ df[i].Latitude = ring[i][2]

\* A polygon with a hole and two different vertices has been tabulated.
C1_Witness ==
    /\ Processed
    /\ Reported.type = "Polygon"
    /\ Len(Reported.coordinates) = 2
    /\ Shown("dataframe")
    /\ Len(df) >= 3
    /\ df[1].Longitude # df[2].Longitude

\* C2: for a drawn MultiPolygon the table holds one row per vertex of the
\* first ring of the first polygon, as Longitude/Latitude pairs, and nothing
\* else.
C2_MultiPolygonTable ==
    (Processed /\ HasDrawing(map_output) /\ Reported.type = "MultiPolygon")
    => LET ring == Reported.coordinates[1][1] IN
        /\ error = "none"
        /\ Shown("dataframe")
        /\ Len(df) = Len(ring)
        /\ \A i \in 1..Len(ring) :
              df[i].Longitude = ring[i][1] /\ df[i].Latitude = ring[i][2]

\* C3: the collection identifier follows from the satellite alone and the band
\* triple from (satellite, mode) by the fixed table; a band triple of one
\* satellite is never requested against the other satellite's collection.
C3_Lookup ==
    (col_id # "")
    => /\ satellite = "Sentinel-2" =>
            /\ col_id = "COPERNICUS/S2_SR_HARMONIZED"
            /\ viz_mode = "Natural Color" => viz_bands = <<"B4", "B3", "B2">>
            /\ viz_mode = "False Color (Infrared)" => viz_bands = <<"B8", "B4", "B3">>
       /\ satellite = "Landsat-8" =>
            /\ col_id = "LANDSAT/LC08/C02/T1_L2"
            /\ viz_mode = "Natural Color" => viz_bands = <<"B4", "B3", "B2">>
            /\ viz_mode = "False Color (Infrared)" => viz_bands = <<"B5", "B4", "B3">>
       /\ col_id = "LANDSAT/LC08/C02/T1_L2" => viz_bands # <<"B8", "B4", "B3">>
       /\ col_id = "COPERNICUS/S2_SR_HARMONIZED" => viz_bands # <<"B5", "B4", "B3">>

\* The tile URL of a Landsat-8 false-colour composite has been requested.
C3_Witness ==
    /\ Called("getMapId")
    /\ satellite = "Landsat-8"
    /\ viz_mode = "False Color (Infrared)"
    /\ Len(m.layers) = 1

\* C4: a run with the load trigger pressed and an empty collection ends with
\* the map rendered without imagery layer, the warning shown, no median or
\* tile-URL request made, and not in an error state.
C4_EmptyCollection ==
    (Idle /\ run_basemap /\ imgCount = 0)
    => /\ rendered.created
       /\ Len(rendered.layers) = 0
       /\ Shown("warning:No images found")
       /\ ~Called("median")
       /\ ~Called("getMapId")
       /\ error = "none"

\* C5: a run in which the map widget reports no last drawn geometry ends in
\* the idle-prompt state: prompt shown, no table, no snippet, no error.
C5_IdlePrompt ==
    (Processed /\ ~(map_output.present /\ Reported.type # "None"))
    => /\ pc = "done"
       /\ error = "none"
       /\ Shown("info:idle prompt")
       /\ ~Shown("subheader")
       /\ ~Shown("dataframe")
       /\ ~Shown("code")
       /\ df = <<>>
       /\ snippet.ctor = ""

\* The widget still holds a polygon of an earlier run but reports none.
C5_Witness ==
    /\ Processed
    /\ map_output.present
    /\ Reported.type = "None"
    /\ drawn.type = "Polygon"
    /\ Shown("info:idle prompt")

\* C6: for a drawn geometry with a non-empty outer ring the extractor outputs
\* a centroid, the mean of the table's Latitude and Longitude columns.
C6_Centroid ==
    (Processed /\ Shown("dataframe") /\ Len(df) > 0)
    => Shown("centroid")

\* C7: when authentication fails initialize_ee returns False after one
\* page-level error and nothing of the main pipeline happens in that run.
C7_AuthFailure ==
    AuthFailed
    => /\ pc = "done"
       /\ error = "none"
       /\ auth = "no_secret" => out = <<"error:Secrets not found">>
       /\ auth # "no_secret" => out = <<"error:Init Error">>
       /\ ~m.created
       /\ ~rendered.created
       /\ ~map_output.present
       /\ eeCalls = <<>>
       /\ col_id = ""
       /\ df = <<>>
       /\ snippet.ctor = ""

\* Credential construction raised in a run pressed for imagery, with a polygon
\* held by the widget.
C7_Witness ==
    /\ auth = "creds_raise"
    /\ run_basemap
    /\ drawn.type = "Polygon"
    /\ Shown("error:Init Error")

\* The size query was issued and gave no count, or the tile URL was requested
\* and no layer came of it: a remote imagery call of this run raised.
RemoteCallRaised ==
    \/ Called("size") /\ imgCount = -1
    \/ Called("getMapId") /\ m.layers = <<>>

\* C8: when the size query or the tile-URL request raises, the failure is
\* caught and a message is shown, no imagery layer is added, and the run
\* still renders the map and processes the coordinates.
C8_RemoteFailureCaught ==
    (Idle /\ RemoteCallRaised)
    => /\ error = "none"
       /\ Shown("error:remote call failed")
       /\ rendered.created
       /\ Len(rendered.layers) = 0
       /\ Shown("info:idle prompt") \/ Shown("code")

\* C9: the collection is filtered by the drawn region when one has been
\* drawn, by the default region otherwise, and the composite is clipped to a
\* supplied region.
C9_RegionOfInterest ==
    (filterRegion # "")
    => /\ drawn.type = "None" => filterRegion = "default_roi"
       /\ drawn.type # "None" =>
            /\ filterRegion = "drawn_roi"
            /\ Called("getMapId") => clipped

\* C10: the rendered map has exactly one imagery layer when the trigger was
\* pressed in this run and the collection is not empty, none otherwise; a run
\* without the trigger issues no imagery request and builds no imagery layer.
C10_LayerPerRun ==
    /\ Len(m.layers) <= 1
    /\ rendered.created =>
          Len(rendered.layers) = (IF run_basemap /\ imgCount > 0 THEN 1 ELSE 0)
    /\ ~run_basemap => (eeCalls = <<>> /\ imgCount = -1 /\ m.layers = <<>>)

\* The run after one that rendered imagery, started by drawing a polygon,
\* rendered a map without imagery layer.
C10_Witness ==
    /\ Processed
    /\ prevLayers = 1
    /\ ~run_basemap
    /\ Shown("dataframe")
    /\ Len(rendered.layers) = 0

====
